---- MODULE Spec2Model ----
(***************************************************************************)
(* Model of the networking diagnostic agent: run_diagnostics (agent.py),   *)
(* the probes (diagnostics/*.py), the explanations (utils/explain.py) and  *)
(* the local analyzer PortiaAIClient._generate_fallback_insights.          *)
(*                                                                         *)
(* Python dicts are records whose DOMAIN is the set of keys present.       *)
(* Formatted strings (f-strings) are tuples of their literal and           *)
(* interpolated parts.  A probe call yields [raised, value]: raised = TRUE *)
(* stands for an exception leaving the probe.                              *)
(***************************************************************************)
EXTENDS Integers, Sequences, FiniteSets, TLC

(***************************************************************************)
(* Bounds of the model.                                                    *)
(***************************************************************************)
MaxDaysLeft == 31

(***************************************************************************)
(* Inputs: the target string, split in scheme, host and path, and the      *)
(* mode.                                                                   *)
(***************************************************************************)
Targets ==
  { [scheme |-> "", host |-> "example.com", path |-> ""],
    [scheme |-> "https://", host |-> "example.com", path |-> "/status"] }

Modes == {"beginner", "expert"}

None == "None"

\* dict.get(key, default)
Get(d, k, default) == IF k \in DOMAIN d THEN d[k] ELSE default

\* a value returned by a call, or an exception leaving it
Returned(v) == [raised |-> FALSE, value |-> v]

Raised(msg) == [raised |-> TRUE, value |-> [error |-> msg]]

(***************************************************************************)
(* What the network answers to each probe.                                 *)
(***************************************************************************)
DnsEvents ==
  { [kind |-> "resolved", ip |-> "93.184.216.34"],
    [kind |-> "exception", msg |-> "Name or service not known"] }

\* the days left of a valid certificate: around 0, around the 30 days of the
\* analyzer, and up to MaxDaysLeft
DaysLeft == {0, 1} \cup (28..MaxDaysLeft)

SslEvents ==
  { [kind |-> "cert", days_left |-> n, issuer |-> [organizationName |-> "CA"]] :
       n \in DaysLeft }
  \cup { [kind |-> "exception", msg |-> "certificate verify failed"] }

HttpEvents ==
  { [kind |-> "response", status_code |-> 200, elapsed_ms |-> t, history |-> <<>>] :
       t \in {150, 3000, 3001} }
  \cup { [kind |-> "response", status_code |-> s, elapsed_ms |-> 150,
          history |-> <<301>>] : s \in {399, 400} }
  \cup { [kind |-> "exception", msg |-> m] :
          m \in {"Connection refused", "timed out", "malformed response"} }

\* rtt_us: the round trip time in microseconds
PingEvents ==
  { [kind |-> "reply", rtt_us |-> u] : u \in {40004, 200000, 200015} }
  \cup { [kind |-> "none"] }
  \cup { [kind |-> "exception", msg |-> "Operation not permitted"] }

GeoEvents ==
  { [kind |-> "record", ip |-> "93.184.216.34", city |-> "Norwell",
     country |-> "US", asn |-> "AS15133", org |-> "Edgecast"],
    [kind |-> "exception", msg |-> "lookup failed"] }

ProbeOrder == <<"dns", "ssl", "http", "ping", "geoip">>

Probes == {ProbeOrder[i] : i \in 1..Len(ProbeOrder)}

Events(p) ==
  CASE p = "dns" -> DnsEvents
    [] p = "ssl" -> SslEvents
    [] p = "http" -> HttpEvents
    [] p = "ping" -> PingEvents
    [] p = "geoip" -> GeoEvents

(***************************************************************************)
(* The probes.                                                             *)
(***************************************************************************)
normalize_target(target) == target.host

dns_resolution(target, ev) ==
  LET host == normalize_target(target) IN
  IF ev.kind = "resolved"
  THEN Returned([ok |-> TRUE, host |-> host, ip |-> ev.ip])
  ELSE Returned([ok |-> FALSE, host |-> host, error |-> ev.msg])

\* round(rtt * 1000, 2), in hundredths of a millisecond (half to even)
round_latency(rtt_us) ==
  LET q == rtt_us \div 10
      r == rtt_us % 10
  IN IF r > 5 \/ (r = 5 /\ q % 2 = 1) THEN q + 1 ELSE q

\* ping_host without its except clause: the exception leaves the probe
ping_host_unguarded(target, ev) ==
  LET host == normalize_target(target) IN
  IF ev.kind = "reply"
  THEN Returned([ok |-> TRUE, host |-> host, latency_ms |-> round_latency(ev.rtt_us)])
  ELSE IF ev.kind = "none"
  THEN Returned([ok |-> FALSE, host |-> host, latency_ms |-> None, error |-> "timeout"])
  ELSE Raised(ev.msg)

ping_host(target, ev) ==
  LET host == normalize_target(target) IN
  IF ev.kind = "reply"
  THEN Returned([ok |-> TRUE, host |-> host, latency_ms |-> round_latency(ev.rtt_us)])
  ELSE IF ev.kind = "none"
  THEN Returned([ok |-> FALSE, host |-> host, latency_ms |-> None, error |-> "timeout"])
  ELSE Returned([ok |-> FALSE, host |-> host, latency_ms |-> None, error |-> ev.msg])

prepare_url(url) ==
  IF url.scheme \in {"http://", "https://"} THEN url
  ELSE [url EXCEPT !.scheme = "https://"]

http_check(target, ev) ==
  LET url == prepare_url(target) IN
  IF ev.kind = "response"
  THEN Returned([ok |-> ev.status_code < 400,
                 url |-> url,
                 status_code |-> ev.status_code,
                 response_time_ms |-> ev.elapsed_ms,
                 final_url |-> url,
                 redirect_chain |-> ev.history])
  ELSE Returned([ok |-> FALSE, url |-> url, error |-> ev.msg])

\* diagnostics/ssl_check.py: a certificate gives ok with its fields, any
\* fault gives ok = False with an error
ssl_certificate_check(target, ev) ==
  LET host == normalize_target(target) IN
  IF ev.kind = "cert"
  THEN Returned([ok |-> TRUE, host |-> host, days_left |-> ev.days_left,
                 issuer |-> ev.issuer])
  ELSE Returned([ok |-> FALSE, host |-> host, error |-> ev.msg])

\* diagnostics/geoip_check.py
geoip_lookup(target, ev) ==
  IF ev.kind = "record"
  THEN Returned([ok |-> TRUE, ip |-> ev.ip, city |-> ev.city,
                 country |-> ev.country, asn |-> ev.asn, org |-> ev.org])
  ELSE Returned([ok |-> FALSE, error |-> ev.msg])

RunProbe(p, target, ev) ==
  CASE p = "dns" -> dns_resolution(target, ev)
    [] p = "ssl" -> ssl_certificate_check(target, ev)
    [] p = "http" -> http_check(target, ev)
    [] p = "ping" -> ping_host(target, ev)
    [] p = "geoip" -> geoip_lookup(target, ev)

(***************************************************************************)
(* utils/explain.py                                                        *)
(***************************************************************************)
Truthy(d, k) == k \in DOMAIN d /\ d[k] = TRUE

explain_dns(result, mode) ==
  IF mode = "beginner"
  THEN IF Truthy(result, "ok")
       THEN <<"DNS resolution successful!", Get(result, "host", None),
              "resolves to", Get(result, "ip", None)>>
       ELSE <<"DNS resolution failed for", Get(result, "host", None),
              Get(result, "error", "")>>
  ELSE <<"DNS Query:", Get(result, "host", None), Get(result, "ip", "FAILED"),
         "Status:", IF Truthy(result, "ok") THEN "OK" ELSE "FAILED">>

explain_ssl(result, mode) ==
  IF mode = "beginner"
  THEN IF Truthy(result, "ok")
       THEN IF "days_left" \in DOMAIN result
            THEN <<"SSL certificate is valid! Expires in", result.days_left, "days.">>
            ELSE <<"SSL certificate is valid!">>
       ELSE <<"SSL certificate issue for", Get(result, "host", None),
              Get(result, "error", "")>>
  ELSE LET issuer == Get(result, "issuer", <<>>) IN
       <<"SSL Check: Valid=", Get(result, "ok", None),
         "Issuer=", Get(issuer, "organizationName", "Unknown"),
         "Days Left=", Get(result, "days_left", "N/A")>>

explain_http(result, mode) ==
  IF mode = "beginner"
  THEN IF Truthy(result, "ok")
       THEN <<"Website is reachable! Status code:", Get(result, "status_code", None),
              Get(result, "response_time_ms", None), "ms">>
       ELSE <<"Website not reachable.", Get(result, "error", "")>>
  ELSE <<"HTTP Check: Status=", Get(result, "status_code", None),
         "Response Time=", Get(result, "response_time_ms", None),
         "Redirects=", Len(Get(result, "redirect_chain", <<>>))>>

explain_ping(result, mode) ==
  IF mode = "beginner"
  THEN IF Truthy(result, "ok")
       THEN <<"Ping successful! Latency:", Get(result, "latency_ms", None),
              "ms to", Get(result, "host", None)>>
       ELSE <<"Cannot ping", Get(result, "host", None), Get(result, "error", "")>>
  ELSE <<"Ping Check: Host=", Get(result, "host", None),
         "RTT=", Get(result, "latency_ms", None),
         "Status=", IF Truthy(result, "ok") THEN "OK" ELSE "FAILED">>

explain_geoip(result, mode) ==
  IF mode = "beginner"
  THEN IF Truthy(result, "ok")
       THEN <<"Server is located in", Get(result, "city", "Unknown"),
              Get(result, "country", "Unknown"), "IP:", Get(result, "ip", None)>>
       ELSE <<"GeoIP lookup failed.", Get(result, "error", "")>>
  ELSE <<"GeoIP: IP=", Get(result, "ip", None), "ASN=", Get(result, "asn", None),
         "Location=", Get(result, "country", None), Get(result, "city", None),
         "Org=", Get(result, "org", None)>>

(***************************************************************************)
(* agent.py: the health score                                              *)
(***************************************************************************)
Max(a, b) == IF a >= b THEN a ELSE b

\* not raw_results[k].get("ok", False)
Failed(raw, k) == ~ Get(raw[k], "ok", FALSE)

\* the health score with the SSL penalty copied from the HTTP one
calculate_health_score_ssl25(raw) ==
  LET s0 == 100
      s1 == IF Failed(raw, "dns") THEN s0 - 25 ELSE s0
      s2 == IF Failed(raw, "http") THEN s1 - 25 ELSE s1
      s3 == IF Failed(raw, "ssl") THEN s2 - 25 ELSE s2
      s4 == IF Failed(raw, "ping") THEN s3 - 15 ELSE s3
      s5 == IF Failed(raw, "geoip") THEN s4 - 15 ELSE s4
  IN Max(0, s5)

calculate_health_score(raw) ==
  LET s0 == 100
      s1 == IF Failed(raw, "dns") THEN s0 - 25 ELSE s0
      s2 == IF Failed(raw, "http") THEN s1 - 25 ELSE s1
      s3 == IF Failed(raw, "ssl") THEN s2 - 20 ELSE s2
      s4 == IF Failed(raw, "ping") THEN s3 - 15 ELSE s3
      s5 == IF Failed(raw, "geoip") THEN s4 - 15 ELSE s4
  IN Max(0, s5)

(***************************************************************************)
(* diagnostics/portia_check.py: the local analyzer.  Each analyze_ operator *)
(* is one category block of _generate_fallback_insights.                   *)
(***************************************************************************)
ApiKeys == {None, "  ", "pk-live"}

strip(k) == IF k = "  " THEN "" ELSE k

is_available(api_key) == api_key # None /\ strip(api_key) # ""

InitialInsights ==
  [root_cause_analysis |-> <<>>,
   intelligent_recommendations |-> <<>>,
   risk_assessment |-> "low",
   performance_score |-> 0,
   predicted_issues |-> <<>>,
   ai_summary |-> <<>>]

Issue(category, severity, issue, impact, details) ==
  [category |-> category, severity |-> severity, issue |-> issue,
   impact |-> impact, technical_details |-> details]

Recommendation(priority, action, details, time) ==
  [priority |-> priority, action |-> action, details |-> details,
   estimated_fix_time |-> time]

Predicted(type, description, action, timeline) ==
  [type |-> type, description |-> description, recommended_action |-> action,
   timeline |-> timeline]

analyze_dns(ins, results) ==
  LET dns_result == Get(results, "dns", <<>>) IN
  IF ~ Truthy(dns_result, "ok")
  THEN [ins EXCEPT
         !.root_cause_analysis = Append(@,
            Issue("DNS", "high", "DNS resolution failure", "Complete connectivity loss",
                  Get(dns_result, "error", "Unknown DNS error"))),
         !.intelligent_recommendations = Append(@,
            Recommendation("critical", "Check DNS configuration",
                  "Verify DNS server settings and domain registration status",
                  "5-15 minutes")),
         !.risk_assessment = "high"]
  ELSE [ins EXCEPT !.performance_score = @ + 25]

\* days_left and days_left < 30
ssl_expiring(ssl_result) ==
  /\ "days_left" \in DOMAIN ssl_result
  /\ ssl_result.days_left # 0
  /\ ssl_result.days_left < 30

\* the SSL block setting the risk to medium without testing that it is low
analyze_ssl_downgrade(ins, results) ==
  LET ssl_result == Get(results, "ssl", <<>>) IN
  IF ~ Truthy(ssl_result, "ok")
  THEN [ins EXCEPT
         !.root_cause_analysis = Append(@,
            Issue("SSL", "medium", "SSL certificate problem", "Security warnings for users",
                  Get(ssl_result, "error", "SSL certificate validation failed"))),
         !.intelligent_recommendations = Append(@,
            Recommendation("high", "Renew SSL certificate",
                  "Certificate may be expired or improperly configured",
                  "10-30 minutes")),
         !.risk_assessment = "medium"]
  ELSE [ins EXCEPT
         !.performance_score = @ + 25,
         !.predicted_issues =
            IF ssl_expiring(ssl_result)
            THEN Append(@, Predicted("ssl_expiration",
                    <<"SSL certificate expires in", ssl_result.days_left, "days">>,
                    "Schedule certificate renewal", "within 2 weeks"))
            ELSE @]

analyze_ssl(ins, results) ==
  LET ssl_result == Get(results, "ssl", <<>>) IN
  IF ~ Truthy(ssl_result, "ok")
  THEN [ins EXCEPT
         !.root_cause_analysis = Append(@,
            Issue("SSL", "medium", "SSL certificate problem", "Security warnings for users",
                  Get(ssl_result, "error", "SSL certificate validation failed"))),
         !.intelligent_recommendations = Append(@,
            Recommendation("high", "Renew SSL certificate",
                  "Certificate may be expired or improperly configured",
                  "10-30 minutes")),
         !.risk_assessment = IF @ = "low" THEN "medium" ELSE @]
  ELSE [ins EXCEPT
         !.performance_score = @ + 25,
         !.predicted_issues =
            IF ssl_expiring(ssl_result)
            THEN Append(@, Predicted("ssl_expiration",
                    <<"SSL certificate expires in", ssl_result.days_left, "days">>,
                    "Schedule certificate renewal", "within 2 weeks"))
            ELSE @]

\* the HTTP block with a slow response raising a low risk to medium
analyze_http_slowrisk(ins, results) ==
  LET http_result == Get(results, "http", <<>>) IN
  IF ~ Truthy(http_result, "ok")
  THEN [ins EXCEPT
         !.root_cause_analysis = Append(@,
            Issue("HTTP", "high", "HTTP connectivity failure",
                  "Website inaccessible to users",
                  Get(http_result, "error", "HTTP connection failed"))),
         !.intelligent_recommendations = Append(@,
            Recommendation("critical", "Check web server status",
                  "Verify server is running and accepting connections",
                  "5-20 minutes")),
         !.risk_assessment = "high"]
  ELSE LET response_time == Get(http_result, "response_time_ms", 0) IN
       [ins EXCEPT
         !.performance_score = @ + 25,
         !.risk_assessment =
            IF response_time > 3000 /\ @ = "low" THEN "medium" ELSE @,
         !.predicted_issues =
            IF response_time > 3000
            THEN Append(@, Predicted("performance",
                    <<"Slow response time:", response_time, "ms">>,
                    "Optimize server performance or consider CDN",
                    "ongoing monitoring recommended"))
            ELSE @]

analyze_http(ins, results) ==
  LET http_result == Get(results, "http", <<>>) IN
  IF ~ Truthy(http_result, "ok")
  THEN [ins EXCEPT
         !.root_cause_analysis = Append(@,
            Issue("HTTP", "high", "HTTP connectivity failure",
                  "Website inaccessible to users",
                  Get(http_result, "error", "HTTP connection failed"))),
         !.intelligent_recommendations = Append(@,
            Recommendation("critical", "Check web server status",
                  "Verify server is running and accepting connections",
                  "5-20 minutes")),
         !.risk_assessment = "high"]
  ELSE LET response_time == Get(http_result, "response_time_ms", 0) IN
       [ins EXCEPT
         !.performance_score = @ + 25,
         !.predicted_issues =
            IF response_time > 3000
            THEN Append(@, Predicted("performance",
                    <<"Slow response time:", response_time, "ms">>,
                    "Optimize server performance or consider CDN",
                    "ongoing monitoring recommended"))
            ELSE @]

\* the ping block emitting its issue without a recommendation
analyze_ping_norec(ins, results) ==
  LET ping_result == Get(results, "ping", <<>>) IN
  IF ~ Truthy(ping_result, "ok")
  THEN [ins EXCEPT
         !.root_cause_analysis = Append(@,
            Issue("Network", "medium", "ICMP ping failure",
                  "Network connectivity issues",
                  Get(ping_result, "error", "Ping timeout or blocked")))]
  ELSE LET latency == Get(ping_result, "latency_ms", 0) IN
       [ins EXCEPT
         !.performance_score = @ + 15,
         !.predicted_issues =
            IF latency > 200 * 100
            THEN Append(@, Predicted("latency",
                    <<"High latency:", latency, "ms">>,
                    "Investigate network path or consider closer servers",
                    "ongoing monitoring recommended"))
            ELSE @]

\* latency_ms is kept in hundredths of a millisecond: 200 ms is 20000
analyze_ping(ins, results) ==
  LET ping_result == Get(results, "ping", <<>>) IN
  IF ~ Truthy(ping_result, "ok")
  THEN [ins EXCEPT
         !.root_cause_analysis = Append(@,
            Issue("Network", "medium", "ICMP ping failure",
                  "Network connectivity issues",
                  Get(ping_result, "error", "Ping timeout or blocked"))),
         !.intelligent_recommendations = Append(@,
            Recommendation("medium", "Check network connectivity",
                  "ICMP may be blocked by firewall or network issues",
                  "10-30 minutes"))]
  ELSE LET latency == Get(ping_result, "latency_ms", 0) IN
       [ins EXCEPT
         !.performance_score = @ + 15,
         !.predicted_issues =
            IF latency > 200 * 100
            THEN Append(@, Predicted("latency",
                    <<"High latency:", latency, "ms">>,
                    "Investigate network path or consider closer servers",
                    "ongoing monitoring recommended"))
            ELSE @]

analyze_geoip(ins, results) ==
  LET geoip_result == Get(results, "geoip", <<>>) IN
  IF Truthy(geoip_result, "ok")
  THEN [ins EXCEPT !.performance_score = @ + 10]
  ELSE ins

\* the summary counting the predicted issues as detected issues
ai_summary_of_predicted(ins, target) ==
  IF ins.root_cause_analysis # <<>> \/ ins.predicted_issues # <<>>
  THEN LET primary_issues ==
             [i \in 1..Len(ins.root_cause_analysis) |->
                ins.root_cause_analysis[i].category]
       IN [ins EXCEPT !.ai_summary =
             <<"AI Analysis: Detected", Len(primary_issues),
               "primary issue(s) affecting", target,
               "Main concerns:", primary_issues,
               "Risk level:", ins.risk_assessment,
               "Performance score:", ins.performance_score, "/100">>]
  ELSE [ins EXCEPT !.ai_summary =
             <<"AI Analysis:", target,
               "appears healthy with a performance score of",
               ins.performance_score, "/100. No critical issues detected.">>]

ai_summary_of(ins, target) ==
  IF ins.root_cause_analysis # <<>>
  THEN LET primary_issues ==
             [i \in 1..Len(ins.root_cause_analysis) |->
                ins.root_cause_analysis[i].category]
       IN [ins EXCEPT !.ai_summary =
             <<"AI Analysis: Detected", Len(primary_issues),
               "primary issue(s) affecting", target,
               "Main concerns:", primary_issues,
               "Risk level:", ins.risk_assessment,
               "Performance score:", ins.performance_score, "/100">>]
  ELSE [ins EXCEPT !.ai_summary =
             <<"AI Analysis:", target,
               "appears healthy with a performance score of",
               ins.performance_score, "/100. No critical issues detected.">>]

generate_fallback_insights(results, target) ==
  ai_summary_of(
    analyze_geoip(
      analyze_ping(
        analyze_http(
          analyze_ssl(
            analyze_dns(InitialInsights, results), results), results), results),
      results), target)

generate_ai_insights(api_key, results, target) ==
  IF ~ is_available(api_key)
  THEN generate_fallback_insights(results, target)
  ELSE generate_fallback_insights(results, target)

\* one category block of the analyzer, by the key of the category
analyze(cat, ins, results) ==
  CASE cat = "dns" -> analyze_dns(ins, results)
    [] cat = "ssl" -> analyze_ssl(ins, results)
    [] cat = "http" -> analyze_http(ins, results)
    [] cat = "ping" -> analyze_ping(ins, results)
    [] cat = "geoip" -> analyze_geoip(ins, results)

\* the category blocks applied in the given order
RECURSIVE AnalyzeInOrder(_, _, _)
AnalyzeInOrder(order, ins, results) ==
  IF order = <<>> THEN ins
  ELSE AnalyzeInOrder(Tail(order), analyze(Head(order), ins, results), results)

(***************************************************************************)
(* agent.py: _generate_summary_and_fixes                                   *)
(***************************************************************************)
Cond(c, seq) == IF c THEN seq ELSE <<>>

local_issues(raw) ==
  Cond(Failed(raw, "dns"), <<"DNS resolution failed">>)
  \o Cond(Failed(raw, "http"), <<"HTTP connection failed">>)
  \o Cond(Failed(raw, "ssl"), <<"SSL certificate issues">>)
  \o Cond(Failed(raw, "ping"), <<"Ping connectivity failed">>)
  \o Cond(Failed(raw, "geoip"), <<"GeoIP lookup failed">>)

local_fixes(raw) ==
  Cond(Failed(raw, "dns"),
       <<"Check if the domain name is correct and exists",
         "Try using a different DNS server (8.8.8.8 or 1.1.1.1)">>)
  \o Cond(Failed(raw, "http"),
       <<"Verify the website is running and accessible",
         "Check if there are any firewall or network restrictions">>)
  \o Cond(Failed(raw, "ssl"),
       <<"Check SSL certificate validity and expiration",
         "Ensure proper SSL configuration on the server">>)
  \o Cond(Failed(raw, "ping"),
       <<"Check network connectivity to the target",
         "Verify if ICMP traffic is allowed">>)
  \o Cond(Failed(raw, "geoip"),
       <<"This may indicate DNS or connectivity issues">>)

ai_fix(rec) ==
  <<"AI", Get(rec, "action", "AI Recommendation"), Get(rec, "details", "")>>
  \o Cond("estimated_fix_time" \in DOMAIN rec /\ rec.estimated_fix_time # "",
          <<"(Est. time:", rec.estimated_fix_time, ")">>)

local_summary(issues, domain) ==
  IF issues = <<>>
  THEN <<"All diagnostics passed for", domain,
         "The target appears to be healthy and reachable.">>
  ELSE <<"Found", Len(issues), "issue(s) with", domain, issues>>

\* the summary and fixes with the external items replacing the local fixes
generate_summary_and_fixes_replace(raw, domain, ai_insights) ==
  LET issues == local_issues(raw)
      fixes == local_fixes(raw)
  IN IF DOMAIN ai_insights # {}
     THEN LET ai_recommendations ==
                Get(ai_insights, "intelligent_recommendations", <<>>)
              ai_summary == Get(ai_insights, "ai_summary", <<>>)
          IN [summary |-> IF ai_summary # <<>> THEN ai_summary
                          ELSE local_summary(issues, domain),
              fixes |-> IF ai_recommendations = <<>> THEN fixes
                        ELSE [i \in 1..Len(ai_recommendations) |->
                                 ai_fix(ai_recommendations[i])]]
     ELSE [summary |-> local_summary(issues, domain), fixes |-> fixes]

generate_summary_and_fixes(raw, domain, ai_insights) ==
  LET issues == local_issues(raw)
      fixes == local_fixes(raw)
  IN IF DOMAIN ai_insights # {}
     THEN LET ai_recommendations ==
                Get(ai_insights, "intelligent_recommendations", <<>>)
              ai_summary == Get(ai_insights, "ai_summary", <<>>)
          IN [summary |-> IF ai_summary # <<>> THEN ai_summary
                          ELSE local_summary(issues, domain),
              fixes |-> fixes \o [i \in 1..Len(ai_recommendations) |->
                                    ai_fix(ai_recommendations[i])]]
     ELSE [summary |-> local_summary(issues, domain), fixes |-> fixes]

(***************************************************************************)
(* agent.py: run_diagnostics, one step per call it makes.                  *)
(***************************************************************************)
VARIABLES domain, mode, api_key, pc, status, events, raw_results, explained,
          health_score, ai_insights, summary, fix_suggestions

vars == <<domain, mode, api_key, pc, status, events, raw_results, explained,
          health_score, ai_insights, summary, fix_suggestions>>

Init ==
  /\ domain \in Targets
  /\ mode \in Modes
  /\ api_key \in ApiKeys
  /\ pc = "collect"
  /\ status = [p \in Probes |-> "pending"]
  /\ events = <<>>
  /\ raw_results = <<>>
  /\ explained = <<>>
  /\ health_score = None
  /\ ai_insights = <<>>
  /\ summary = <<>>
  /\ fix_suggestions = <<>>

\* the position of a probe in the dict literal of raw_results
Index(p) == CHOOSE i \in 1..Len(ProbeOrder) : ProbeOrder[i] = p

\* the call of probe p: the entries of the dict literal are evaluated in
\* order, each call returning before the next entry is evaluated
CallProbe(p) ==
  /\ pc = "collect"
  /\ status[p] = "pending"
  /\ \A q \in Probes : Index(q) < Index(p) => status[q] = "done"
  /\ \A q \in Probes : status[q] # "running"
  /\ status' = [status EXCEPT ![p] = "running"]
  /\ UNCHANGED <<domain, mode, api_key, pc, events, raw_results, explained,
                 health_score, ai_insights, summary, fix_suggestions>>

\* probe p returns its outcome, or its exception leaves run_diagnostics
ReturnProbe(p) ==
  /\ pc = "collect"
  /\ status[p] = "running"
  /\ \E ev \in Events(p) :
       LET r == RunProbe(p, domain, ev) IN
       /\ events' = events @@ (p :> ev)
       /\ IF r.raised
          THEN /\ pc' = "raised"
               /\ UNCHANGED <<status, raw_results>>
          ELSE /\ raw_results' = raw_results @@ (p :> r.value)
               /\ status' = [status EXCEPT ![p] = "done"]
               /\ pc' = IF Index(p) = Len(ProbeOrder) THEN "explain" ELSE "collect"
  /\ UNCHANGED <<domain, mode, api_key, explained, health_score, ai_insights,
                 summary, fix_suggestions>>

Explain ==
  /\ pc = "explain"
  /\ explained' = [dns |-> explain_dns(raw_results["dns"], mode),
                   ssl |-> explain_ssl(raw_results["ssl"], mode),
                   http |-> explain_http(raw_results["http"], mode),
                   ping |-> explain_ping(raw_results["ping"], mode),
                   geoip |-> explain_geoip(raw_results["geoip"], mode)]
  /\ pc' = "score"
  /\ UNCHANGED <<domain, mode, api_key, status, events, raw_results,
                 health_score, ai_insights, summary, fix_suggestions>>

CalculateHealthScore ==
  /\ pc = "score"
  /\ health_score' = calculate_health_score(raw_results)
  /\ pc' = "insights"
  /\ UNCHANGED <<domain, mode, api_key, status, events, raw_results, explained,
                 ai_insights, summary, fix_suggestions>>

GetAiInsights ==
  /\ pc = "insights"
  /\ ai_insights' = generate_ai_insights(api_key, raw_results, domain)
  /\ pc' = "summary"
  /\ UNCHANGED <<domain, mode, api_key, status, events, raw_results, explained,
                 health_score, summary, fix_suggestions>>

GenerateSummaryAndFixes ==
  /\ pc = "summary"
  /\ LET r == generate_summary_and_fixes(raw_results, domain, ai_insights) IN
       /\ summary' = r.summary
       /\ fix_suggestions' = r.fixes
  /\ pc' = "done"
  /\ UNCHANGED <<domain, mode, api_key, status, events, raw_results, explained,
                 health_score, ai_insights>>

Next ==
  \/ \E p \in Probes : CallProbe(p)
  \/ \E p \in Probes : ReturnProbe(p)
  \/ Explain
  \/ CalculateHealthScore
  \/ GetAiInsights
  \/ GenerateSummaryAndFixes

Spec == Init /\ [][Next]_vars

(***************************************************************************)
(* Vocabulary of the properties.                                           *)
(***************************************************************************)
Finished == pc = "done"

\* the outcome of category k is a failure
Fails(k) == raw_results[k].ok = FALSE

FailedSet == {k \in Probes : Fails(k)}

OnlyFailed(S) == FailedSet = S

\* the penalty of a failed category in the health score
Weight(k) ==
  CASE k = "dns" -> 25
    [] k = "http" -> 25
    [] k = "ssl" -> 20
    [] k = "ping" -> 15
    [] k = "geoip" -> 15

RECURSIVE SumWeights(_)
SumWeights(S) ==
  IF S = {} THEN 0
  ELSE LET k == CHOOSE x \in S : TRUE IN Weight(k) + SumWeights(S \ {k})

RiskRank(r) == CASE r = "low" -> 0 [] r = "medium" -> 1 [] r = "high" -> 2

\* every order in which the five category blocks can be processed
Orders ==
  {o \in [1..Len(ProbeOrder) -> Probes] :
     \A i, j \in 1..Len(ProbeOrder) : i # j => o[i] # o[j]}

\* C1: the health score is 100 minus the weights of the failed categories
\* (DNS 25, HTTP 25, TLS 20, Ping 15, GeoLocation 15), an integer in 0..100.
C1_HealthScore ==
  pc \in {"insights", "summary", "done"} =>
    /\ health_score = 100 - SumWeights(FailedSet)
    /\ health_score \in 0..100

C1_Witness ==
  /\ Finished
  /\ OnlyFailed({"dns", "http"})
  /\ health_score = 50

\* C2: when DNS or HTTP failed the risk of the analyzer is high, whatever the
\* other outcomes are and in whatever order the categories are processed.
C2_HighRisk ==
  (Finished /\ (Fails("dns") \/ Fails("http"))) =>
    /\ ai_insights.risk_assessment = "high"
    /\ \A o \in Orders :
         AnalyzeInOrder(o, InitialInsights, raw_results).risk_assessment = "high"

C2_Witness ==
  /\ Finished
  /\ OnlyFailed({"dns", "ssl", "ping"})
  /\ ai_insights.risk_assessment = "high"

\* the risk after the first n category blocks of the analyzer
RiskAfter(n) ==
  AnalyzeInOrder(SubSeq(ProbeOrder, 1, n), InitialInsights, raw_results).risk_assessment

\* C3: during the analysis the risk never moves downward, a failure of TLS,
\* Ping or GeoLocation with DNS and HTTP succeeding gives the final risk
\* medium, and the final risk is low only when no category failed.
C3_RiskUpgrade ==
  Finished =>
    /\ \A n \in 1..Len(ProbeOrder) :
         RiskRank(RiskAfter(n)) >= RiskRank(RiskAfter(n - 1))
    /\ (~ Fails("dns") /\ ~ Fails("http") /\ FailedSet # {}) =>
          ai_insights.risk_assessment = "medium"
    /\ ai_insights.risk_assessment = "low" => FailedSet = {}

\* the network's answer to probe p is a fault of the probe
Faulted(p) == events[p].kind \in {"exception", "none"}

C5_Concurrent ==
  /\ \A p, q \in Probes :
       (pc = "collect" /\ status[p] = "pending" /\ status[q] = "running")
         => ENABLED CallProbe(p)
  /\ pc \in {"score", "insights", "summary", "done"} => DOMAIN raw_results = Probes

\* C6: in every outcome returned by dns_resolution, http_check and ping_host
\* the error field is present if and only if ok is false.
C6_ErrorIffNotOk ==
  \A p \in {"dns", "http", "ping"} \cap DOMAIN raw_results :
    ("error" \in DOMAIN raw_results[p]) <=> (raw_results[p].ok = FALSE)

HasPredicted(type) ==
  \E i \in 1..Len(ai_insights.predicted_issues) :
    ai_insights.predicted_issues[i].type = type

\* C7: the analyzer emits the ssl_expiration predicted issue if and only if
\* the TLS outcome has ok = true and days_left < 30, for every integer
\* days_left.
C7_SslExpiration ==
  Finished =>
    (HasPredicted("ssl_expiration") <=>
       (raw_results["ssl"].ok /\ raw_results["ssl"].days_left < 30))

\* the categories for which the analyzer emits an Issue
IssueCategories == {"dns", "ssl", "http", "ping"}

\* the category name the analyzer gives to each of them
CatName(k) ==
  CASE k = "dns" -> "DNS" [] k = "ssl" -> "SSL" [] k = "http" -> "HTTP"
    [] k = "ping" -> "Network"

Severity(k) ==
  CASE k = "dns" -> "high" [] k = "ssl" -> "medium" [] k = "http" -> "high"
    [] k = "ping" -> "medium"

Priority(k) ==
  CASE k = "dns" -> "critical" [] k = "ssl" -> "high" [] k = "http" -> "critical"
    [] k = "ping" -> "medium"

Action(k) ==
  CASE k = "dns" -> "Check DNS configuration"
    [] k = "ssl" -> "Renew SSL certificate"
    [] k = "http" -> "Check web server status"
    [] k = "ping" -> "Check network connectivity"

\* C8: the analyzer emits exactly one Issue for each failed category among
\* DNS, TLS, HTTP and Ping and none for a succeeded one, with the severity of
\* the category, and one Recommendation per Issue at the same position with
\* the priority of the category; TLS alone failing gives score 80, risk
\* medium, one Issue (TLS, medium), one Recommendation (high, "Renew SSL
\* certificate").
C8_IssuesAndRecommendations ==
  Finished =>
    LET issues == ai_insights.root_cause_analysis
        recs == ai_insights.intelligent_recommendations
    IN /\ \A k \in IssueCategories :
            Cardinality({i \in 1..Len(issues) : issues[i].category = CatName(k)})
              = IF Fails(k) THEN 1 ELSE 0
       /\ Len(issues) = Cardinality(FailedSet \cap IssueCategories)
       /\ Len(recs) = Len(issues)
       /\ \A i \in 1..Len(issues) :
            \E k \in IssueCategories :
              /\ issues[i].category = CatName(k)
              /\ issues[i].severity = Severity(k)
              /\ recs[i].priority = Priority(k)
              /\ recs[i].action = Action(k)
       /\ OnlyFailed({"ssl"}) =>
            /\ health_score = 80
            /\ ai_insights.risk_assessment = "medium"
            /\ Len(issues) = 1
            /\ issues[1].category = "SSL" /\ issues[1].severity = "medium"
            /\ Len(recs) = 1
            /\ recs[1].priority = "high" /\ recs[1].action = "Renew SSL certificate"

C8_Witness ==
  /\ Finished
  /\ OnlyFailed({"dns", "ping"})
  /\ Len(ai_insights.root_cause_analysis) = 2
  /\ ai_insights.intelligent_recommendations[2].priority = "medium"

\* the summary s names the target and states that it is healthy
HealthySummary(s, target) ==
  /\ Len(s) >= 3
  /\ \/ /\ s[1] = "AI Analysis:"
        /\ s[2] = target
        /\ s[3] = "appears healthy with a performance score of"
     \/ /\ s[1] = "All diagnostics passed for"
        /\ s[2] = target
        /\ s[3] = "The target appears to be healthy and reachable."

\* C9: when all five outcomes succeed the Issues list is empty, the risk is
\* low, the recommendations of the analyzer and the fix_suggestions are empty
\* and the summary names the target and states that it is healthy.
C9_AllHealthy ==
  (Finished /\ FailedSet = {}) =>
    /\ ai_insights.root_cause_analysis = <<>>
    /\ ai_insights.risk_assessment = "low"
    /\ ai_insights.intelligent_recommendations = <<>>
    /\ fix_suggestions = <<>>
    /\ HealthySummary(summary, domain)

C9_Witness ==
  /\ Finished
  /\ FailedSet = {}
  /\ raw_results["ssl"].days_left = 1
  /\ ai_insights.predicted_issues # <<>>
  /\ summary[1] = "AI Analysis:"

\* the position of a category in the fixed check order DNS, TLS, HTTP, Ping
IssueRank(category) ==
  CASE category = "DNS" -> 1 [] category = "SSL" -> 2 [] category = "HTTP" -> 3
    [] category = "Network" -> 4

ActionRank(action) ==
  CHOOSE r \in 1..4 : \E k \in IssueCategories :
    Action(k) = action /\ IssueRank(CatName(k)) = r

LocalIssueRank(name) ==
  CASE name = "DNS resolution failed" -> 1
    [] name = "SSL certificate issues" -> 2
    [] name = "HTTP connection failed" -> 3
    [] name = "Ping connectivity failed" -> 4
    [] name = "GeoIP lookup failed" -> 5

LocalFixRank(fix) ==
  CASE fix \in {"Check if the domain name is correct and exists",
                "Try using a different DNS server (8.8.8.8 or 1.1.1.1)"} -> 1
    [] fix \in {"Check SSL certificate validity and expiration",
                "Ensure proper SSL configuration on the server"} -> 2
    [] fix \in {"Verify the website is running and accessible",
                "Check if there are any firewall or network restrictions"} -> 3
    [] fix \in {"Check network connectivity to the target",
                "Verify if ICMP traffic is allowed"} -> 4
    [] fix = "This may indicate DNS or connectivity issues" -> 5

\* the ranks of a list never decrease
Ordered(ranks) == \A i, j \in 1..Len(ranks) : i < j => ranks[i] <= ranks[j]

\* the fix suggestions generated locally: those before the appended ones
LocalPart ==
  SubSeq(fix_suggestions, 1,
         Len(fix_suggestions) - Len(ai_insights.intelligent_recommendations))

\* C10: every list of the result that enumerates failing categories follows
\* the order DNS, TLS, HTTP, Ping: the Issues and Recommendations of the
\* analyzer and the issue names and fix suggestions generated locally.
C10_CheckOrder ==
  Finished =>
    LET issues == ai_insights.root_cause_analysis
        recs == ai_insights.intelligent_recommendations
        names == local_issues(raw_results)
    IN /\ Ordered([i \in 1..Len(issues) |-> IssueRank(issues[i].category)])
       /\ Ordered([i \in 1..Len(recs) |-> ActionRank(recs[i].action)])
       /\ Ordered([i \in 1..Len(names) |-> LocalIssueRank(names[i])])
       /\ Ordered([i \in 1..Len(LocalPart) |-> LocalFixRank(LocalPart[i])])

(***************************************************************************)
(* _generate_summary_and_fixes on its own: any outcome set and any value   *)
(* of the ai_insights argument.  None and the empty dict are both the      *)
(* empty record: the function only tests their truth value.                *)
(***************************************************************************)
MaxItems == 2

\* recommendation items of an external source: complete, without a time
\* estimate, without an action
ExternalItems ==
  { [priority |-> "high", action |-> "Restart resolver",
     details |-> "Flush the cache", estimated_fix_time |-> "2 minutes"],
    [action |-> "Rotate keys", details |-> "Keys are old"],
    [details |-> "Look at the logs", estimated_fix_time |-> ""] }

ItemLists == UNION {[1..n -> ExternalItems] : n \in 0..MaxItems}

ExternalSummaries == {<<>>, <<"External analysis of the target">>}

ExternalInsights ==
  {<<>>}
  \cup {[error |-> "Portia AI API error: 500", fallback |-> TRUE]}
  \cup {[intelligent_recommendations |-> l] : l \in ItemLists}
  \cup {[ai_summary |-> t] : t \in ExternalSummaries}
  \cup {[intelligent_recommendations |-> l, ai_summary |-> t] :
          l \in ItemLists, t \in ExternalSummaries}

\* one succeeding and one failing answer of the network for each probe
OkEvent(p) ==
  CHOOSE e \in Events(p) : \A t \in Targets : RunProbe(p, t, e).value.ok

FailEvent(p) ==
  CHOOSE e \in Events(p) : \A t \in Targets : ~ RunProbe(p, t, e).value.ok

SummaryInit ==
  /\ domain \in Targets
  /\ mode = "beginner"
  /\ api_key = None
  /\ pc = "summary"
  /\ status = [p \in Probes |-> "done"]
  /\ events \in [Probes -> UNION {{OkEvent(p), FailEvent(p)} : p \in Probes}]
  /\ \A p \in Probes : events[p] \in {OkEvent(p), FailEvent(p)}
  /\ raw_results = [p \in Probes |-> RunProbe(p, domain, events[p]).value]
  /\ explained = [dns |-> explain_dns(raw_results["dns"], mode),
                  ssl |-> explain_ssl(raw_results["ssl"], mode),
                  http |-> explain_http(raw_results["http"], mode),
                  ping |-> explain_ping(raw_results["ping"], mode),
                  geoip |-> explain_geoip(raw_results["geoip"], mode)]
  /\ health_score = calculate_health_score(raw_results)
  /\ ai_insights \in ExternalInsights
  /\ summary = <<>>
  /\ fix_suggestions = <<>>

SummaryNext == GenerateSummaryAndFixes

SummarySpec == SummaryInit /\ [][SummaryNext]_vars

\* the number of fixes the local rules give for the failed categories
LocalFixCount ==
  2 * Cardinality(FailedSet \cap {"dns", "http", "ssl", "ping"})
  + Cardinality(FailedSet \cap {"geoip"})

\* the items and the summary supplied with the ai_insights argument
SuppliedItems == Get(ai_insights, "intelligent_recommendations", <<>>)

SuppliedSummary == Get(ai_insights, "ai_summary", <<>>)

\* the fix entry e renders the supplied item
Renders(e, item) ==
  /\ e[1] = "AI"
  /\ e[2] = (IF "action" \in DOMAIN item THEN item.action ELSE "AI Recommendation")
  /\ e[3] = (IF "details" \in DOMAIN item THEN item.details ELSE "")
  /\ IF "estimated_fix_time" \in DOMAIN item /\ item.estimated_fix_time # ""
     THEN Len(e) = 6 /\ e[5] = item.estimated_fix_time
     ELSE Len(e) = 3

\* the summary s is the locally generated one
LocalSummary(s) ==
  IF FailedSet = {}
  THEN /\ s[1] = "All diagnostics passed for"
       /\ HealthySummary(s, domain)
  ELSE /\ s[1] = "Found"
       /\ s[2] = Cardinality(FailedSet)
       /\ s[4] = domain
       /\ Len(s[5]) = Cardinality(FailedSet)
       /\ \A i \in 1..Len(s[5]) : LocalIssueRank(s[5][i]) \in 1..5

\* C11: for every outcome set and every insights value the returned fixes are
\* all locally generated fixes, unchanged and in their order, followed by the
\* supplied items; the summary is the supplied one when it is non-empty and
\* otherwise the local one (healthy, or the count and names of the failed
\* checks); absent insights give the local result.
C11_AppendOnly ==
  Finished =>
    LET without == generate_summary_and_fixes(raw_results, domain, <<>>) IN
    /\ Len(without.fixes) = LocalFixCount
    /\ Len(fix_suggestions) = LocalFixCount + Len(SuppliedItems)
    /\ SubSeq(fix_suggestions, 1, LocalFixCount) = without.fixes
    /\ \A i \in 1..Len(SuppliedItems) :
         Renders(fix_suggestions[LocalFixCount + i], SuppliedItems[i])
    /\ IF SuppliedSummary # <<>>
       THEN summary = SuppliedSummary
       ELSE LocalSummary(summary)
    /\ LocalSummary(without.summary)

C11_Witness ==
  /\ Finished
  /\ OnlyFailed({"http", "geoip"})
  /\ Len(SuppliedItems) = 2
  /\ SuppliedSummary = <<>>
  /\ Len(fix_suggestions) = 5
  /\ summary[1] = "Found"

\* the contribution of a succeeded category to the performance score
Contribution(k) ==
  CASE k = "dns" -> 25
    [] k = "ssl" -> 25
    [] k = "http" -> 25
    [] k = "ping" -> 15
    [] k = "geoip" -> 10

RECURSIVE SumContributions(_)
SumContributions(S) ==
  IF S = {} THEN 0
  ELSE LET k == CHOOSE x \in S : TRUE
       IN Contribution(k) + SumContributions(S \ {k})

\* other measurements the probes can report: response times in ms and
\* latencies in hundredths of a millisecond
ResponseTimes == {150, 3000, 3001}

Latencies == {4000, 20000, 20002}

\* the outcome set with the same ok flags and other measurements
WithMeasurements(raw, d, t, l) ==
  [raw EXCEPT
     !["ssl"] = IF "days_left" \in DOMAIN @ THEN [@ EXCEPT !.days_left = d] ELSE @,
     !["http"] = IF "response_time_ms" \in DOMAIN @
                 THEN [@ EXCEPT !.response_time_ms = t] ELSE @,
     !["ping"] = IF @.ok THEN [@ EXCEPT !.latency_ms = l] ELSE @]

NamesAnIssue(s) ==
  \/ s[1] = "AI Analysis: Detected" /\ s[2] >= 1 /\ Len(s[6]) >= 1
  \/ s[1] = "Found" /\ s[2] >= 1 /\ Len(s[5]) >= 1

\* C13: the summary of a run reports the target as healthy if and only if
\* health_score is 100 and fix_suggestions is empty, and whenever one of the
\* five probes failed the summary names at least one issue.
C13_SummaryConsistent ==
  Finished =>
    /\ HealthySummary(summary, domain) <=> (health_score = 100 /\ fix_suggestions = <<>>)
    /\ FailedSet # {} => NamesAnIssue(summary)

====
